---- MODULE Spec2Model ----
(***************************************************************************)
(* AI Shopping Expert: the chat frontend (neu-app/src/hooks/useChat.js,    *)
(* neu-app/src/components/ChatWindow.jsx) together with the POST /chat     *)
(* retrieval pipeline it talks to.  The backend sources (backend/main.py)  *)
(* are not part of the source tree at hand; the pipeline is modelled from  *)
(* its written contract, and the keyword filter from the snippet in the    *)
(* README.                                                                 *)
(*                                                                         *)
(* The state holds text as strings.  Where the program looks inside a text *)
(* (trim, lower-casing, splitting, substring search) the operators work on *)
(* its characters, a sequence of one-character strings given by Chars.     *)
(***************************************************************************)
EXTENDS Integers, Sequences, FiniteSets, TLC

VARIABLES
    messages,   \* useChat: useState([])     the chat transcript
    loading,    \* useChat: useState(false)
    error,      \* useChat: useState(null)
    input,      \* ChatWindow: useState('')  the text field
    pending,    \* sendMessage calls suspended at an await, with their request
    turns,      \* number of sendMessage calls that passed the blank check
    posts,      \* network log: POST /chat requests issued, per turn
    limit,      \* backend configuration: the retrieval limit
    ingested,   \* backend: the products whose embedding column is filled
    kwQuery,    \* input of the stand-alone keyword extraction
    kwResult,   \* its result
    kwDone      \* whether it has run

vars == <<messages, loading, error, input, pending, turns, posts,
          limit, ingested, kwQuery, kwResult, kwDone>>

chatVars == <<messages, loading, error, input, pending, turns, posts>>
backendVars == <<limit, ingested>>
kwVars == <<kwQuery, kwResult, kwDone>>

\* JavaScript null, for the error state (a string or null)
NULL == "null"

\* an optional value: None (Python None, SQL NULL) or Some(x)
None == <<>>
Some(x) == <<x>>

----------------------------------------------------------------------------
(* Bounds of the model *)

MaxTurns == 2
MaxLimit == 4
MaxQueryLen == 5

----------------------------------------------------------------------------
(* Text *)

UpperCase == <<"A", "B", "C", "F", "G", "I", "M", "N", "R", "S", "Y">>
LowerCase == <<"a", "b", "c", "f", "g", "i", "m", "n", "r", "s", "y">>

\* String.prototype.toLowerCase / str.lower(), one character
LowerChar(c) ==
    IF \E i \in 1..Len(UpperCase) : UpperCase[i] = c
    THEN LowerCase[CHOOSE i \in 1..Len(UpperCase) : UpperCase[i] = c]
    ELSE c

Lower(s) == [i \in 1..Len(s) |-> LowerChar(s[i])]

IsSpace(c) == c = " "

\* !query.trim(): the trimmed text is empty
IsBlank(s) == \A i \in 1..Len(s) : IsSpace(s[i])

\* needle in hay (Python), contiguous substring
Contains(hay, needle) ==
    \E i \in 0..(Len(hay) - Len(needle)) :
        \A j \in 1..Len(needle) : hay[i + j] = needle[j]

\* whitespace split: the maximal runs of non-space characters, in order
RECURSIVE SplitFrom(_, _, _)
SplitFrom(s, i, cur) ==
    IF i > Len(s)
    THEN IF cur = <<>> THEN <<>> ELSE <<cur>>
    ELSE IF IsSpace(s[i])
         THEN (IF cur = <<>> THEN <<>> ELSE <<cur>>) \o SplitFrom(s, i + 1, <<>>)
         ELSE SplitFrom(s, i + 1, Append(cur, s[i]))

Tokens(s) == SplitFrom(s, 1, <<>>)

----------------------------------------------------------------------------
(* Keyword Extractor *)

StopWords ==
    { <<"i">>, <<"n", "e", "e", "d">>, <<"w", "a", "n", "t">>,
      <<"s", "h", "o", "w">>, <<"m", "e">>, <<"a">>, <<"t", "h", "e">> }

\* variant: a later token of the same length replaces the best one
RECURSIVE LongestFrom_LastOnTie(_, _, _)
LongestFrom_LastOnTie(toks, i, best) ==
    IF i > Len(toks) THEN best
    ELSE LongestFrom_LastOnTie(toks, i + 1,
                     IF Len(toks[i]) >= Len(best) THEN toks[i] ELSE best)

\* the longest token of a non-empty list, the first one on a tie
RECURSIVE LongestFrom(_, _, _)
LongestFrom(toks, i, best) ==
    IF i > Len(toks) THEN best
    ELSE LongestFrom(toks, i + 1,
                     IF Len(toks[i]) > Len(best) THEN toks[i] ELSE best)

extractKeyword(query) ==
    LET remaining == SelectSeq(Tokens(Lower(query)), LAMBDA t : t \notin StopWords)
    IN  IF remaining = <<>> THEN None
        ELSE Some(LongestFrom(remaining, 2, remaining[1]))

----------------------------------------------------------------------------
(* Product Store *)

\* the characters of each text the state may hold
Chars(text) ==
    CASE text = "Nike Air Max 270" -> <<"N", "i", "k", "e", " ", "A", "i", "r", " ", "M", "a", "x", " ", "2", "7", "0">>
      [] text = "Coffee Maker" -> <<"C", "o", "f", "f", "e", "e", " ", "M", "a", "k", "e", "r">>
      [] text = "Running Shoes" -> <<"R", "u", "n", "n", "i", "n", "g", " ", "S", "h", "o", "e", "s">>
      [] text = "Blue Gym Shoes" -> <<"B", "l", "u", "e", " ", "G", "y", "m", " ", "S", "h", "o", "e", "s">>
      [] text = "Coffee Grinder" -> <<"C", "o", "f", "f", "e", "e", " ", "G", "r", "i", "n", "d", "e", "r">>
      [] text = "Yoga Mat" -> <<"Y", "o", "g", "a", " ", "M", "a", "t">>
      [] text = "Fitness" -> <<"F", "i", "t", "n", "e", "s", "s">>
      [] text = "Footwear" -> <<"F", "o", "o", "t", "w", "e", "a", "r">>
      [] text = "Appliances" -> <<"A", "p", "p", "l", "i", "a", "n", "c", "e", "s">>
      [] text = "I need blue gym shoes" -> <<"I", " ", "n", "e", "e", "d", " ", "b", "l", "u", "e", " ", "g", "y", "m", " ", "s", "h", "o", "e", "s">>
      [] text = "Show me the" -> <<"S", "h", "o", "w", " ", "m", "e", " ", "t", "h", "e">>
      [] text = "  " -> <<" ", " ">>
      [] text = "" -> <<>>

ProductIds == 1..6

\* the product rows, before any embedding is ingested
Catalogue ==
    [id \in ProductIds |->
        CASE id = 1 -> [id |-> 1, name |-> "Nike Air Max 270", category |-> "Footwear",
                        price |-> 150,
                        description |-> "Comfortable running shoes with Air Max technology",
                        embedding |-> None]
          [] id = 2 -> [id |-> 2, name |-> "Coffee Maker", category |-> "Appliances",
                        price |-> 80, description |-> "Drip coffee machine",
                        embedding |-> None]
          [] id = 3 -> [id |-> 3, name |-> "Running Shoes", category |-> "Footwear",
                        price |-> 60, description |-> "Light trainers",
                        embedding |-> None]
          [] id = 4 -> [id |-> 4, name |-> "Blue Gym Shoes", category |-> "Footwear",
                        price |-> 45, description |-> "Indoor trainers",
                        embedding |-> None]
          [] id = 5 -> [id |-> 5, name |-> "Coffee Grinder", category |-> "Appliances",
                        price |-> 30, description |-> "Burr grinder",
                        embedding |-> None]
          [] OTHER  -> [id |-> 6, name |-> "Yoga Mat", category |-> "Fitness",
                        price |-> 20, description |-> "Non-slip mat",
                        embedding |-> None]]

\* the vector the embedding model gives a product's text (one dimension)
ProductVec == <<1, 2, 5, 5, 3, 9>>

\* the vectors the embedding model may give a query
QueryVecs == {0, 8}

\* the Product Store: /admin/ingest-all has embedded the products in ingested
Store ==
    [id \in ProductIds |->
        IF id \in ingested THEN [Catalogue[id] EXCEPT !.embedding = Some(ProductVec[id])]
        ELSE Catalogue[id]]

\* the sets of products a store may have embedded when chat traffic arrives
IngestedSets == { {}, {1, 2, 3, 4, 5} }

Distance(a, b) == IF a >= b THEN a - b ELSE b - a

Min(a, b) == IF a <= b THEN a ELSE b

Take(s, n) == SubSeq(s, 1, Min(n, Len(s)))

\* every ordering of the rows S by ascending distance to qv (ties in any order)
RECURSIVE Ranked(_, _)
Ranked(S, qv) ==
    IF S = {} THEN { <<>> }
    ELSE LET d == CHOOSE m \in { Distance(p.embedding[1], qv) : p \in S } :
                      \A q \in S : m <= Distance(q.embedding[1], qv)
         IN  UNION { { <<p>> \o r : r \in Ranked(S \ {p}, qv) } :
                     p \in { x \in S : Distance(x.embedding[1], qv) = d } }

\* ORDER BY embedding <=> qv LIMIT k over the rows with an embedding:
\* the results the database may give
VectorSearch(st, qv, k) ==
    { Take(r, k) : r \in Ranked({ st[id] : id \in { i \in ProductIds : st[i].embedding # None } }, qv) }

----------------------------------------------------------------------------
(* Hybrid Retriever and Response Generator *)

\* variant: the keyword is extracted but the results are not filtered
filter_results_KeepAll(query, results) ==
    LET keyword == extractKeyword(Chars(query))
    IN  SelectSeq(results, LAMBDA product : keyword # None)

\* variant: the matches are collected by prepending, last match first
filter_results_Prepending(query, results) ==
    LET keyword == extractKeyword(Chars(query))
        kept == SelectSeq(results,
                    LAMBDA product : Contains(Lower(Chars(product.name)), keyword[1]))
    IN  [i \in 1..Len(kept) |-> kept[Len(kept) + 1 - i]]

filter_results(query, results) ==
    LET keyword == extractKeyword(Chars(query))
    IN  SelectSeq(results, LAMBDA product : Contains(Lower(Chars(product.name)), keyword[1]))

\* retrieve(query, limit), given the vector-search result vec (empty when the
\* embedding call failed) and the policy fallback for an absent keyword or
\* an empty filter result: TRUE falls back to the unfiltered vector results
retrieve(query, lim, vec, fallback) ==
    LET keyword == extractKeyword(Chars(query))
        filtered == IF keyword = None THEN <<>> ELSE filter_results(query, vec)
        chosen == IF filtered # <<>> THEN filtered
                  ELSE IF fallback THEN vec ELSE <<>>
    IN  Take(chosen, lim)

\* the product fields of a response: a snapshot without the embedding
Snapshot(p) ==
    [id |-> p.id, name |-> p.name, category |-> p.category, price |-> p.price,
     description |-> p.description]

\* the limit the backend is configured with unless a larger one is set
DefaultLimit == 3

ReplyText == "Here is what I found."

\* generate(query, products) behind POST /chat: the HTTP response
generate(query, products, genOk) ==
    IF genOk
    THEN [status |-> 200,
          body |-> [response |-> ReplyText,
                    products |-> [i \in 1..Len(products) |-> Snapshot(products[i])]]]
    ELSE [status |-> 500, body |-> [detail |-> "GenerationUnavailable"]]

\* variant: an embedding failure is answered with an error
chat_EmbeddingRaises(query, lim, qvec, vec, fallback, genOk) ==
    IF qvec = None
    THEN [status |-> 500, body |-> [detail |-> "EmbeddingUnavailable"]]
    ELSE generate(query, retrieve(query, lim, vec, fallback), genOk)

\* POST /chat: retrieve, then generate; qvec is None when the embedding call
\* failed, and vec is then empty
chat(query, lim, qvec, vec, fallback, genOk) ==
    generate(query, retrieve(query, lim, vec, fallback), genOk)

\* the backend's local variables while it has not handled the request
NoTrace == [qvec |-> None, vec |-> <<>>, keyword |-> None, products |-> <<>>]

----------------------------------------------------------------------------
(* The chat hook and the chat window *)

Query_Shoes == "I need blue gym shoes"
Query_Show == "Show me the"
Query_Blank == "  "

\* what the user may type into the text field
InputTexts == { Query_Shoes, Query_Show, Query_Blank }

MaxCards == 3


\* response.ok
Ok(status) == status >= 200 /\ status <= 299

\* data.products || []
OrEmpty(body) == IF "products" \in DOMAIN body THEN body.products ELSE <<>>

\* variant: every product of the message is rendered
Cards_All(message) ==
    IF "products" \in DOMAIN message /\ Len(message.products) > 0
    THEN message.products
    ELSE <<>>

\* MessageBubble: the product cards rendered for a message, in order
Cards(message) ==
    IF "products" \in DOMAIN message /\ Len(message.products) > 0
    THEN SubSeq(message.products, 1, Min(MaxCards, Len(message.products)))
    ELSE <<>>

\* ChatWindow: the line under the form, None when it is not rendered
ErrorBanner == IF error # NULL /\ error # "" THEN Some("Error: " \o error) ELSE None

\* sendMessage(query) up to its first await: the user message, the flags,
\* and the POST /chat it issues.  A message's id (Date.now()) is only a
\* render key; turn records which sendMessage call made the message.
SendMessage(query) ==
    IF IsBlank(Chars(query))
    THEN UNCHANGED <<messages, loading, error, pending, turns, posts>>
    ELSE /\ turns' = turns + 1
         /\ messages' = Append(messages,
                [turn |-> turns + 1, type |-> "user", content |-> query])
         /\ loading' = TRUE
         /\ error' = NULL
         /\ posts' = [posts EXCEPT ![turns + 1] = @ + 1]
         /\ pending' = pending \cup
                { [turn |-> turns + 1, query |-> query, stage |-> "sent",
                   status |-> 0, body |-> [detail |-> ""], trace |-> NoTrace] }

\* variant: the error is recorded but no message is appended
Catch_Silent(r, message) ==
    /\ error' = message
    /\ loading' = FALSE
    /\ pending' = pending \ {r}
    /\ input' = ""
    /\ UNCHANGED <<messages, turns, posts>>

\* variant: loading is reset on success only, not in a finally block
Catch_LoadingStuck(r, message) ==
    /\ error' = message
    /\ messages' = Append(messages,
           [turn |-> r.turn, type |-> "error", content |-> "Error: " \o message])
    /\ pending' = pending \ {r}
    /\ input' = ""
    /\ UNCHANGED <<loading, turns, posts>>

\* sendMessage's catch and finally blocks, then handleSubmit's setInput('')
Catch(r, message) ==
    /\ error' = message
    /\ messages' = Append(messages,
           [turn |-> r.turn, type |-> "error", content |-> "Error: " \o message])
    /\ loading' = FALSE
    /\ pending' = pending \ {r}
    /\ input' = ""
    /\ UNCHANGED <<turns, posts>>

\* the text field's onChange; the field is disabled while loading
SetInput(text) ==
    /\ ~loading
    /\ input # text
    /\ input' = text
    /\ UNCHANGED <<messages, loading, error, pending, turns, posts>>
    /\ UNCHANGED <<backendVars, kwVars>>

\* variant: the form submits while a request is pending
HandleSubmit_NoLoadingGuard ==
    /\ turns < MaxTurns
    /\ ~IsBlank(Chars(input))
    /\ SendMessage(input)
    /\ UNCHANGED input
    /\ UNCHANGED <<backendVars, kwVars>>

\* the form's onSubmit
HandleSubmit ==
    /\ turns < MaxTurns
    /\ ~IsBlank(Chars(input)) /\ ~loading
    /\ SendMessage(input)
    /\ UNCHANGED input
    /\ UNCHANGED <<backendVars, kwVars>>

\* the Clear Chat button
ClearMessages ==
    /\ messages' = <<>>
    /\ error' = NULL
    /\ UNCHANGED <<loading, input, pending, turns, posts>>
    /\ UNCHANGED <<backendVars, kwVars>>

\* the backend handles the POST /chat of r
ChatEndpoint(r) ==
    /\ r.stage = "sent"
    /\ \E qvec \in {None} \cup { Some(v) : v \in QueryVecs }, genOk, fallback \in BOOLEAN :
         \E vec \in (IF qvec = None THEN { <<>> } ELSE VectorSearch(Store, qvec[1], limit)) :
            LET products == retrieve(r.query, limit, vec, fallback)
                resp == chat(r.query, limit, qvec, vec, fallback, genOk)
            IN  pending' = (pending \ {r}) \cup
                    { [r EXCEPT !.stage = "responded", !.status = resp.status,
                                !.body = resp.body,
                                !.trace = [qvec |-> qvec, vec |-> vec,
                                           keyword |-> extractKeyword(Chars(r.query)),
                                           products |-> products]] }
    /\ UNCHANGED <<messages, loading, error, input, turns, posts>>
    /\ UNCHANGED <<backendVars, kwVars>>

\* fetch rejects: the request or its response is lost
FetchReject(r) ==
    /\ r.stage \in {"sent", "responded"}
    /\ Catch(r, "Failed to fetch")
    /\ UNCHANGED <<backendVars, kwVars>>

\* fetch resolves with the backend's response
FetchResolve(r) ==
    /\ r.stage = "responded"
    /\ IF ~Ok(r.status)
       THEN Catch(r, "HTTP error! status: " \o ToString(r.status))
       ELSE /\ pending' = (pending \ {r}) \cup { [r EXCEPT !.stage = "parsing"] }
            /\ UNCHANGED <<messages, loading, error, input, turns, posts>>
    /\ UNCHANGED <<backendVars, kwVars>>

\* response.json() resolves: the ai message, finally, then setInput('')
JsonResolve(r) ==
    /\ r.stage = "parsing"
    /\ messages' = Append(messages,
           [turn |-> r.turn, type |-> "ai", content |-> r.body.response,
            products |-> OrEmpty(r.body)])
    /\ loading' = FALSE
    /\ pending' = pending \ {r}
    /\ input' = ""
    /\ UNCHANGED <<error, turns, posts>>
    /\ UNCHANGED <<backendVars, kwVars>>

\* response.json() rejects: the body is cut short
JsonReject(r) ==
    /\ r.stage = "parsing"
    /\ Catch(r, "Unexpected end of JSON input")
    /\ UNCHANGED <<backendVars, kwVars>>

----------------------------------------------------------------------------
(* The application *)

Init ==
    /\ messages = <<>>
    /\ loading = FALSE
    /\ error = NULL
    /\ input = ""
    /\ pending = {}
    /\ turns = 0
    /\ posts = [t \in 1..MaxTurns |-> 0]
    /\ limit \in DefaultLimit..MaxLimit
    /\ ingested \in IngestedSets
    /\ kwQuery = <<>>
    /\ kwResult = None
    /\ kwDone = FALSE

Settle ==
    \E r \in pending :
        \/ FetchReject(r)
        \/ FetchResolve(r)
        \/ JsonResolve(r)
        \/ JsonReject(r)

Next ==
    \/ \E text \in InputTexts : SetInput(text)
    \/ HandleSubmit
    \/ ClearMessages
    \/ \E r \in pending : ChatEndpoint(r)
    \/ Settle

Spec == Init /\ [][Next]_vars

\* the application over a store with every embedding ingested but one and the
\* default limit
InitIngested == Init /\ limit = DefaultLimit /\ ingested # {}

\* every request eventually settles: fetch and response.json() resolve or reject
FairSpec == InitIngested /\ [][Next]_vars /\ WF_vars(Settle)

----------------------------------------------------------------------------
(* Keyword extraction on its own, over every short text *)

KwAlphabet == {" ", "a", "I", "b", "m", "e"}

KwQueries == UNION { [1..n -> KwAlphabet] : n \in 0..MaxQueryLen }

InitKw ==
    /\ messages = <<>>
    /\ loading = FALSE
    /\ error = NULL
    /\ input = ""
    /\ pending = {}
    /\ turns = 0
    /\ posts = [t \in 1..MaxTurns |-> 0]
    /\ limit = DefaultLimit
    /\ ingested = {}
    /\ kwQuery \in KwQueries
    /\ kwResult = None
    /\ kwDone = FALSE

ExtractKeyword ==
    /\ ~kwDone
    /\ kwResult' = extractKeyword(kwQuery)
    /\ kwDone' = TRUE
    /\ UNCHANGED <<kwQuery, chatVars, backendVars>>

NextKw == ExtractKeyword

SpecKw == InitKw /\ [][NextKw]_vars

----------------------------------------------------------------------------
(* Properties *)

\* the requests the backend has handled and whose response is not yet consumed
Handled == { r \in pending : r.stage # "sent" }

\* those of them that carry a chat response (generated text and products)
Responses == { r \in Handled : Ok(r.status) }

Elems(s) == { s[i] : i \in 1..Len(s) }

\* s holds no element twice and is t with some elements left out
IsSubsequence(s, t) ==
    /\ \A i \in 1..Len(s) : \E k \in 1..Len(t) : t[k] = s[i]
    /\ \A i, j \in 1..Len(s) :
         i < j => \E k, l \in 1..Len(t) : k < l /\ t[k] = s[i] /\ t[l] = s[j]

\* the keyword occurs in the lower-cased name
NameHas(p, kw) == Contains(Lower(Chars(p.name)), kw)

\* the keyword occurs in the lower-cased name or category
NameOrCategoryHas(p, kw) ==
    NameHas(p, kw) \/ Contains(Lower(Chars(p.category)), kw)

\* p is a row with an embedding, and fewer than k such rows are strictly nearer to qv
AmongNearest(p, qv, k) ==
    /\ p.embedding # None
    /\ \E id \in ProductIds : Store[id] = p
    /\ Cardinality({ id \in ProductIds :
            /\ Store[id].embedding # None
            /\ Distance(Store[id].embedding[1], qv) < Distance(p.embedding[1], qv) }) < k

C2_AtMostLimit ==
    /\ \A r \in Handled :
          /\ Len(r.trace.products) <= limit
          /\ Ok(r.status) => Len(r.body.products) <= limit
    /\ \A i \in 1..Len(messages) : Len(Cards(messages[i])) <= 3

\* an ai message in the transcript holds more than 3 products
C2_Witness ==
    \E i \in 1..Len(messages) :
        /\ messages[i].type = "ai"
        /\ Len(messages[i].products) > 3
        /\ Len(Cards(messages[i])) = 3

\* ---- C3 ----------------------------------------------------------------
\* C3: the products returned are in non-decreasing distance from the query
\* vector and form a subsequence of the vector-search result; the response
\* lists them in that order; the window renders a prefix of the message's
\* product list, in order.
C3_OrderKept ==
    /\ \A r \in Handled :
          /\ IsSubsequence(r.trace.products, r.trace.vec)
          /\ \A i, j \in 1..Len(r.trace.products) :
                i < j => Distance(r.trace.products[i].embedding[1], r.trace.qvec[1])
                           <= Distance(r.trace.products[j].embedding[1], r.trace.qvec[1])
          /\ Ok(r.status) =>
                /\ Len(r.body.products) = Len(r.trace.products)
                /\ \A i \in 1..Len(r.trace.products) :
                      r.body.products[i].id = r.trace.products[i].id
    /\ \A i \in 1..Len(messages) :
          LET cards == Cards(messages[i])
          IN  \A k \in 1..Len(cards) : cards[k] = messages[i].products[k]

\* a request whose filter dropped a result and kept two, next to a rendered
\* message of two cards or more
C3_Witness ==
    /\ \E r \in Handled :
          /\ r.trace.keyword # None
          /\ Len(r.trace.products) >= 2
          /\ Len(r.trace.products) < Len(r.trace.vec)
    /\ \E i \in 1..Len(messages) : Len(Cards(messages[i])) >= 2

\* ---- C4 ----------------------------------------------------------------
\* C4: for the query "I need blue gym shoes" the keyword is "shoes", and when
\* the 3 nearest neighbours hold "Nike Air Max 270" and "Coffee Maker", the
\* products returned include "Nike Air Max 270" and exclude "Coffee Maker".
C4_ShoesExample ==
    \A r \in Handled :
        ( /\ r.query = Query_Shoes
          /\ Len(r.trace.vec) <= 3
          /\ \E c \in Elems(r.trace.vec) : c.name = "Nike Air Max 270"
          /\ \E c \in Elems(r.trace.vec) : c.name = "Coffee Maker" )
        => /\ r.trace.keyword = Some(<<"s", "h", "o", "e", "s">>)
           /\ \E p \in Elems(r.trace.products) : p.name = "Nike Air Max 270"
           /\ \A p \in Elems(r.trace.products) : p.name # "Coffee Maker"

\* ---- C5 ----------------------------------------------------------------
\* the reply messages of turn t in the transcript
Replies(t) ==
    { i \in 1..Len(messages) : messages[i].turn = t /\ messages[i].type # "user" }

\* r leaves the set of suspended calls in this step
Settles(r) == \A q \in pending' : q.turn # r.turn

\* C5: a failed chat request is surfaced and not retried.  Every sendMessage
\* call has issued exactly one POST /chat, and a turn has at most one reply
\* in the transcript.  The step in which a call settles appends exactly one
\* message, at the end of the transcript (after the turn's user message),
\* and issues no further POST; the message is of type 'error' when the
\* request got no ok response; and an 'error' message has the content
\* "Error: <message>", with error set to <message> (shown under the form)
\* and no ai message of that turn in the transcript.
C5_FailureSurfacedOnce ==
    /\ [](/\ \A t \in 1..MaxTurns : posts[t] = (IF t <= turns THEN 1 ELSE 0)
          /\ \A t \in 1..MaxTurns : Cardinality(Replies(t)) <= 1)
    /\ [][\A r \in pending :
            Settles(r) =>
               LET last == messages'[Len(messages')]
               IN  /\ messages' = Append(messages, last)
                   /\ last.turn = r.turn
                   /\ last.type \in {"ai", "error"}
                   /\ ~Ok(r.status) => last.type = "error"
                   /\ posts' = posts
                   /\ pending' = pending \ {r}
                   /\ last.type = "error" =>
                         /\ error' \notin {NULL, ""}
                         /\ last = [turn |-> r.turn, type |-> "error",
                                    content |-> "Error: " \o error']
                         /\ ErrorBanner' = Some("Error: " \o error')
                         /\ \A i \in 1..Len(messages') :
                               messages'[i].turn = r.turn
                                   => messages'[i].type # "ai"]_vars

\* the backend answered 500 and the transcript shows the error after the
\* user message
C5_Witness ==
    /\ pending = {}
    /\ posts[1] = 1
    /\ error = "HTTP error! status: 500"
    /\ Len(messages) = 2
    /\ messages[1].type = "user"
    /\ messages[2] = [turn |-> 1, type |-> "error",
                      content |-> "Error: HTTP error! status: 500"]

C8_LoadingAroundRequest ==
    /\ [][turns' # turns => (loading' /\ posts' # posts)]_vars
    /\ [][\A r \in pending : Settles(r) => ~loading']_vars
    /\ (loading ~> ~loading)

\* a turn is over: its reply is in the transcript and loading is off
C8_Witness ==
    /\ turns >= 1
    /\ pending = {}
    /\ ~loading
    /\ Replies(turns) # {}

\* ---- C9 ----------------------------------------------------------------
\* C9: every 'ai' or 'error' message in the transcript is preceded by the
\* 'user' message of its turn.
C9_ReplyAfterItsUserMessage ==
    \A i \in 1..Len(messages) :
        messages[i].type # "user" =>
            \E j \in 1..(i - 1) :
                messages[j].type = "user" /\ messages[j].turn = messages[i].turn

\* ---- C10 ---------------------------------------------------------------
\* C10: at most one POST /chat is pending, loading is true whenever one is,
\* and a request starts only in a step taken with a non-blank text field and
\* loading false.
C10_OneRequestAtATime ==
    /\ [](Cardinality(pending) <= 1 /\ (pending # {} => loading))
    /\ [][turns' # turns => (~IsBlank(Chars(input)) /\ ~loading)]_vars

\* a request is pending while the text field still holds a query and
\* another turn would be allowed
C10_Witness ==
    /\ Cardinality(pending) = 1
    /\ loading
    /\ ~IsBlank(Chars(input))
    /\ turns >= 1 /\ turns < MaxTurns

====
